---- MODULE Spec2Model ----
(***************************************************************************)
(* The markdown-to-audio pipeline of src/src/main.rs as a state machine.   *)
(*                                                                         *)
(* One behaviour is a series of invocations of the program on one          *)
(* document tree.  An invocation (a "run") reads its configuration, asks   *)
(* the operator for a processing mode, and walks the selected documents    *)
(* stage by stage; each (document, stage) visit is one step.  Between two  *)
(* invocations the operator may delete a file (SpecDelete) or point the    *)
(* output at another directory (SpecReconfig).                             *)
(*                                                                         *)
(* File names are sequences of tokens, so that format!("intro_{}.mp3", id) *)
(* is the concatenation <<"intro_">> \o id \o <<".mp3">> and two names are *)
(* equal exactly when the strings they stand for are equal.                *)
(***************************************************************************)
EXTENDS Integers, Sequences, FiniteSets, TLC

(***************************************************************************)
(* Bounds of the model.                                                    *)
(***************************************************************************)
MaxDocs == 3        \* documents discovered
MaxRuns == 2        \* invocations of the program in one behaviour
MaxDeletes == 1     \* files the operator deletes between invocations
MaxBlocks == 2      \* runs of equal characters in a document text

(***************************************************************************)
(* Paths (std::path).  A path is a directory and a file name; the last     *)
(* token of a file name is its extension, dot included.                    *)
(***************************************************************************)
file_stem(p) == SubSeq(p.name, 1, Len(p.name) - 1)

with_extension(p, ext) == [dir |-> p.dir, name |-> file_stem(p) \o <<ext>>]

with_file_name(p, name) == [dir |-> p.dir, name |-> name]

join(d, name) == [dir |-> d, name |-> name]

\* config.input.docs_path
docs_path == "docs"

\* the values config.output.audio_path takes: the document directory itself,
\* or a directory of its own
AudioPaths == {"docs", "out"}

Md(d, stem) == [dir |-> d, name |-> stem \o <<".md">>]

\* the markdown files the tree may hold
FilePool == {Md("docs", <<"a">>), Md("docs", <<"b">>), Md("docs", <<"c">>)}

(***************************************************************************)
(* Texts.  A text is a sequence of blocks <<c, n>>: n copies of the        *)
(* character c, adjacent blocks holding different characters.  String::len *)
(* counts bytes of the UTF-8 encoding, chars() counts Unicode scalars.     *)
(***************************************************************************)
Chars == {"a", "e_acute", "euro"}

\* bytes of the UTF-8 encoding of one character
len_utf8(c) == CASE c = "a" -> 1 [] c = "e_acute" -> 2 [] c = "euro" -> 3

RECURSIVE len(_)
len(s) == IF s = <<>> THEN 0 ELSE len_utf8(s[1][1]) * s[1][2] + len(Tail(s))

RECURSIVE chars_count(_)
chars_count(s) == IF s = <<>> THEN 0 ELSE s[1][2] + chars_count(Tail(s))

\* s.chars().take(n).collect::<String>()
RECURSIVE chars_take(_, _)
chars_take(s, n) ==
    IF s = <<>> \/ n = 0 THEN <<>>
    ELSE IF s[1][2] <= n THEN <<s[1]>> \o chars_take(Tail(s), n - s[1][2])
    ELSE <<(<<s[1][1], n>>)>>

\* the first 4000 bytes of s when they end on a character boundary
RECURSIVE bytes_take(_, _)
bytes_take(s, n) ==
    IF s = <<>> \/ n = 0 THEN <<>>
    ELSE IF len_utf8(s[1][1]) * s[1][2] <= n
         THEN <<s[1]>> \o bytes_take(Tail(s), n - len_utf8(s[1][1]) * s[1][2])
    ELSE IF n \div len_utf8(s[1][1]) = 0 THEN <<>>
    ELSE <<(<<s[1][1], n \div len_utf8(s[1][1])>>)>>

\* the limit of main.rs:317 and :322
TruncateLimit == 4000

TruncateBytes(content) ==
    IF len(content) > TruncateLimit THEN bytes_take(content, TruncateLimit) ELSE content

\* main.rs:317-325
Truncate(content) ==
    IF len(content) > TruncateLimit THEN chars_take(content, TruncateLimit) ELSE content

BlockCounts == {1, 1000, 2000, 3000, 4000, 4001, 5000}

Blocks == Chars \X BlockCounts

Texts == {s \in UNION {[1..n -> Blocks] : n \in 0..MaxBlocks} :
            \A i \in 1..(Len(s) - 1) : s[i][1] # s[i + 1][1]}

\* the text of the end-to-end scenario: 500 one-byte characters
PlainText == <<(<<"a", 500>>)>>

(***************************************************************************)
(* The state.                                                              *)
(***************************************************************************)
VARIABLES
    files,      \* markdown_files: what find_markdown_files returns, in walk order
    audio_path, \* AUDIO_OUTPUT_PATH, the value config.output.audio_path is loaded from
    mdText,     \* the text of each markdown file
    disk,       \* the derived files on disk: path -> content
    runsLeft,   \* invocations still allowed
    deletesLeft,\* deletions still allowed
    pc,         \* "idle": no invocation in progress; "run": inside the stage functions
    exit,       \* exit status of the last invocation; -1 before it ends
    startup,    \* "ok", or why the last invocation ended before any stage began
    cfg,        \* the operator's and the configuration's choices of this invocation
    phase,      \* position in the stages of this invocation
    idx,        \* position in files_to_process
    log,        \* one entry per (document, stage) visit of this invocation
    located,    \* every artifact path this invocation has computed
    startDisk,  \* the disk when this invocation began
    prev,       \* what the previous invocation was, when it was a completed full process
    deleted,    \* the files deleted since the previous invocation ended
    since       \* prev and deleted as they were when this invocation began

vars == <<files, audio_path, mdText, disk, runsLeft, deletesLeft, pc, exit, startup, cfg,
          phase, idx, log, located, startDisk, prev, deleted, since>>

Transcript == "Transcript"
Narration == "Narration"
Intro == "Intro"
Merge == "Merge"

EmptyDisk == [p \in {} |-> <<>>]

exists(d, p) == p \in DOMAIN d

write(d, p, c) == [q \in DOMAIN d \cup {p} |-> IF q = p THEN c ELSE d[q]]

remove_file(d, p) == [q \in DOMAIN d \ {p} |-> d[q]]

(***************************************************************************)
(* The external collaborators.  An answer is an uninterpreted function of  *)
(* the request; whether the call succeeds is chosen by the step.           *)
(***************************************************************************)
\* conversation.rs: the dialogue the provider returns for `content`
generate_conversation(content) == <<"conversation", content>>

\* audio.rs: the bytes the speech endpoint returns for `text`
audio_content(text) == <<"speech", text>>

\* audio_merger.rs:13-16: the list file handed to ffmpeg
list_content(intro_abs, content_abs) == <<"list", intro_abs, content_abs>>

\* what ffmpeg's concat demuxer produces from two inputs
concat(a, b) == <<"concat", a, b>>

(***************************************************************************)
(* Artifact paths, as each function of main.rs computes them.              *)
(***************************************************************************)
\* main.rs:303 and :365
conv_filename(file) == with_extension(file, ".conversation.txt")

\* main.rs:368
audio_filename(file, output_path) == join(output_path, file_stem(file) \o <<".mp3">>)

\* the intro with the identifier alone after "About"
generate_intro_plain(file) ==
    [intro_filename |-> with_file_name(file, <<"intro_">> \o file_stem(file) \o <<".txt">>),
     intro_content |-> <<"text", <<"Chapter ">> \o file_stem(file) \o <<". About ">>
                                   \o file_stem(file) \o <<".">> >>]

\* main.rs:49-59
generate_intro(file) ==
    [intro_filename |-> with_file_name(file, <<"intro_">> \o file_stem(file) \o <<".txt">>),
     intro_content |-> <<"text", <<"Chapter ">> \o file_stem(file) \o <<". About NIP-">>
                                   \o file_stem(file) \o <<".">> >>]

\* main.rs:412
intro_audio_filename(file, output_path) ==
    join(output_path, <<"intro_">> \o file_stem(file) \o <<".mp3">>)

\* main.rs:444
merge_intro_audio(file, input_path) ==
    join(input_path, <<"intro_">> \o file_stem(file) \o <<".mp3">>)

\* main.rs:445
merge_content_audio(file, input_path) == join(input_path, file_stem(file) \o <<".mp3">>)

\* main.rs:446
merged_audio(file, output_path) ==
    join(output_path, <<"chapter_">> \o file_stem(file) \o <<".mp3">>)

\* audio_merger.rs:13
temp_list(output) == with_extension(output, ".txt")

Loc(file, kind, path) == [file |-> file, kind |-> kind, path |-> path]

(***************************************************************************)
(* main: the menus and the dispatch.                                       *)
(***************************************************************************)
StageOrder == <<Transcript, Narration, Intro, Merge>>

\* main.rs:469-517: process_all calls the four stage functions in this order
process_all == StageOrder

\* main.rs:210-282: the stage functions the chosen mode calls
Plan(selection, operation) ==
    LET k == IF selection = 5 THEN operation ELSE selection
    IN  IF k = 4 THEN process_all ELSE <<StageOrder[k + 1]>>

\* main.rs:111-114
file_names == [i \in 1..Len(files) |-> files[i].name]

\* main.rs:128-136: the first discovered path whose file name is the chosen one
selected_path(file_selection) ==
    LET hits == {i \in 1..Len(files) : files[i].name = file_names[file_selection + 1]}
    IN  files[CHOOSE i \in hits : \A j \in hits : i <= j]

\* main.rs:109-158
files_to_process(selection, file_selection) ==
    IF selection = 5 THEN <<selected_path(file_selection)>> ELSE files

\* main.rs:162: whether the operator is asked for the model provider, nfiles
\* being files_to_process.len()
asks_model(selection, nfiles) ==
    selection = 0 \/ selection = 4 \/ (selection = 5 /\ nfiles = 1)

NoCfg == [selection |-> -1, file_selection |-> -1, operation |-> -1, output_path |-> "",
          input_path |-> "", files_to_process |-> <<>>, model_asked |-> FALSE,
          plan |-> <<>>]

NoPrev == [full_ok |-> FALSE, files_to_process |-> <<>>, output_path |-> ""]

NoSince == [rerun |-> FALSE, deleted |-> {}]

\* one loop over the files with the four stage calls inside it
AdvancePerFile(ph, i, nstages, nfiles) ==
    IF ph < nstages THEN <<ph + 1, i>>
    ELSE IF i < nfiles THEN <<1, i + 1>>
    ELSE <<nstages + 1, 1>>

\* the loops of main.rs:301, :358, :405, :438 inside the calls of the plan: the
\* position after the visit at (ph, i), nfiles > 0
Advance(ph, i, nstages, nfiles) ==
    IF i < nfiles THEN <<ph, i + 1>> ELSE <<ph + 1, 1>>

\* the position before the first visit; past the plan when there is no file
FirstPos(nstages, nfiles) == IF nfiles = 0 THEN <<nstages + 1, 1>> ELSE <<1, 1>>

Envs == {"ok", "no_config", "no_model_var", "no_api_key"}

\* main.rs:79-208: how the invocation fares before any stage function is called
Startup(selection, env) ==
    IF env = "no_config" THEN "config"                                \* :83
    ELSE IF selection = 5 /\ Len(files) = 0 THEN "no_files"           \* :116-118
    ELSE IF /\ env = "no_model_var"
            /\ asks_model(selection, IF selection = 5 THEN 1 ELSE Len(files))
         THEN "no_model_var"                                          \* :173, :176
    ELSE IF env = "no_api_key" THEN "no_api_key"                      \* :204
    ELSE "ok"

\* an error returned from main exits with 1, a panic (expect) with 101
StartupExit(s) == IF s \in {"no_model_var", "no_api_key"} THEN 101 ELSE 1

StartRun(selection, file_selection, operation, env) ==
    /\ pc = "idle"
    /\ runsLeft > 0
    /\ runsLeft' = runsLeft - 1
    /\ startup' = Startup(selection, env)
    /\ log' = <<>>
    /\ located' = {}
    /\ startDisk' = disk
    /\ deleted' = {}
    /\ IF startup' # "ok"
       THEN /\ exit' = StartupExit(startup')
            /\ pc' = "idle"
            /\ cfg' = NoCfg
            /\ phase' = 1
            /\ idx' = 1
            /\ prev' = NoPrev
            /\ since' = NoSince
       ELSE LET ftp == files_to_process(selection, file_selection)
                plan == Plan(selection, operation)
                pos == FirstPos(Len(plan), Len(ftp))
            IN  /\ exit' = -1
                /\ pc' = "run"
                /\ cfg' = [selection |-> selection, file_selection |-> file_selection,
                           operation |-> operation,
                           output_path |-> audio_path, input_path |-> docs_path,
                           files_to_process |-> ftp,
                           model_asked |-> asks_model(selection, Len(ftp)),
                           plan |-> plan]
                /\ phase' = pos[1]
                /\ idx' = pos[2]
                /\ since' = [rerun |-> /\ prev.full_ok
                                       /\ plan = process_all
                                       /\ prev.files_to_process = ftp
                                       /\ prev.output_path = audio_path,
                             deleted |-> deleted]
                /\ prev' = NoPrev
    /\ UNCHANGED <<files, audio_path, mdText, disk, deletesLeft>>

(***************************************************************************)
(* The stage functions.  One step is one pass of a stage function's loop   *)
(* body for one file: the paths, the checks, and the executor if it is     *)
(* called.  The outcome is what the function prints or returns:            *)
(*   "Skipped"  the output exists ("Skipping existing ...")                *)
(*   "Pending"  an input is missing ("Skipping file without ...")          *)
(*   "Done"     the executor was called and returned Ok                    *)
(*   "Failed"   the executor was called and returned Err                   *)
(***************************************************************************)
Entry(stage, outcome, input, wrote) ==
    [stage |-> stage, doc |-> idx, outcome |-> outcome, input |-> input, wrote |-> wrote]

\* an Err that is reported and passed over, the loop going on
NeverAborts(outcome) == FALSE

\* the `?` after each executor call (main.rs:329, :390, :427, :462) and after each
\* stage function (main.rs:226-248, :256-278, :481-505): an Err leaves main at once
Aborts(outcome) == outcome = "Failed"

\* main returning Ok(()) whatever the stage functions returned
ExitAlwaysZero(failed) == 0

\* main.rs:288 and the Err returned through main.rs:79
ExitCode(failed) == IF failed THEN 1 ELSE 0

Visit(entry, newDisk, locs) ==
    /\ log' = Append(log, entry)
    /\ disk' = newDisk
    /\ located' = located \cup locs
    /\ IF Aborts(entry.outcome)
       THEN /\ pc' = "idle"
            /\ exit' = ExitCode(TRUE)
            /\ UNCHANGED <<phase, idx>>
       ELSE LET pos == Advance(phase, idx, Len(cfg.plan), Len(cfg.files_to_process))
            IN  /\ phase' = pos[1]
                /\ idx' = pos[2]
                /\ UNCHANGED <<pc, exit>>
    /\ UNCHANGED <<files, audio_path, mdText, runsLeft, deletesLeft, startup, cfg,
                   startDisk, prev, deleted, since>>

AtStage(stage) ==
    /\ pc = "run"
    /\ phase <= Len(cfg.plan)
    /\ cfg.plan[phase] = stage

\* markdown.rs:26-29
process_markdown(file) == mdText[file]

\* main.rs:292-348, one file
TranscriptStep(ok) ==
    /\ AtStage(Transcript)
    /\ LET file == cfg.files_to_process[idx]
           conv == conv_filename(file)
           locs == {Loc(file, "Transcript", conv)}
           content == Truncate(process_markdown(file))
       IN  IF exists(disk, conv)
           THEN Visit(Entry(Transcript, "Skipped", <<>>, <<>>), disk, locs)
           ELSE IF ok
           THEN Visit(Entry(Transcript, "Done", content, <<conv>>),
                      write(disk, conv, generate_conversation(content)), locs)
           ELSE Visit(Entry(Transcript, "Failed", content, <<>>), disk, locs)

\* a missing transcript treated as an error of the document
NarrationFailsOnMissing(ok) ==
    /\ AtStage(Narration)
    /\ LET file == cfg.files_to_process[idx]
           conv == conv_filename(file)
           audio == audio_filename(file, cfg.output_path)
           locs == {Loc(file, "Transcript", conv), Loc(file, "ContentAudio", audio)}
       IN  IF ~exists(disk, conv)
           THEN Visit(Entry(Narration, "Failed", <<>>, <<>>), disk, locs)
           ELSE IF exists(disk, audio)
           THEN Visit(Entry(Narration, "Skipped", <<>>, <<>>), disk, locs)
           ELSE IF ok
           THEN Visit(Entry(Narration, "Done", disk[conv], <<audio>>),
                      write(disk, audio, audio_content(disk[conv])), locs)
           ELSE Visit(Entry(Narration, "Failed", disk[conv], <<>>), disk, locs)

\* main.rs:351-395, one file; audio.rs:12-42 writes the file only on success
NarrationStep(ok) ==
    /\ AtStage(Narration)
    /\ LET file == cfg.files_to_process[idx]
           conv == conv_filename(file)
           audio == audio_filename(file, cfg.output_path)
           locs == {Loc(file, "Transcript", conv), Loc(file, "ContentAudio", audio)}
       IN  IF ~exists(disk, conv)
           THEN Visit(Entry(Narration, "Pending", <<>>, <<>>), disk, locs)
           ELSE IF exists(disk, audio)
           THEN Visit(Entry(Narration, "Skipped", <<>>, <<>>), disk, locs)
           ELSE IF ok
           THEN Visit(Entry(Narration, "Done", disk[conv], <<audio>>),
                      write(disk, audio, audio_content(disk[conv])), locs)
           ELSE Visit(Entry(Narration, "Failed", disk[conv], <<>>), disk, locs)

\* an intro made only for a document that has its transcript
IntroNeedsTranscript(ok) ==
    /\ AtStage(Intro)
    /\ LET file == cfg.files_to_process[idx]
           intro == generate_intro(file)
           audio == intro_audio_filename(file, cfg.output_path)
           locs == {Loc(file, "IntroText", intro.intro_filename),
                    Loc(file, "IntroAudio", audio)}
           withText == write(disk, intro.intro_filename, intro.intro_content)
       IN  IF exists(disk, audio)
           THEN Visit(Entry(Intro, "Skipped", <<>>, <<>>), disk, locs)
           ELSE IF ~exists(disk, conv_filename(file))
           THEN Visit(Entry(Intro, "Pending", <<>>, <<>>), disk, locs)
           ELSE IF ok
           THEN Visit(Entry(Intro, "Done", intro.intro_content,
                            <<intro.intro_filename, audio>>),
                      write(withText, audio, audio_content(intro.intro_content)), locs)
           ELSE Visit(Entry(Intro, "Failed", intro.intro_content,
                            <<intro.intro_filename>>),
                      withText, locs)

\* main.rs:398-432, one file: the intro text is written before the speech call
IntroStep(ok) ==
    /\ AtStage(Intro)
    /\ LET file == cfg.files_to_process[idx]
           intro == generate_intro(file)
           audio == intro_audio_filename(file, cfg.output_path)
           locs == {Loc(file, "IntroText", intro.intro_filename),
                    Loc(file, "IntroAudio", audio)}
           withText == write(disk, intro.intro_filename, intro.intro_content)
       IN  IF exists(disk, audio)
           THEN Visit(Entry(Intro, "Skipped", <<>>, <<>>), disk, locs)
           ELSE IF ok
           THEN Visit(Entry(Intro, "Done", intro.intro_content,
                            <<intro.intro_filename, audio>>),
                      write(withText, audio, audio_content(intro.intro_content)), locs)
           ELSE Visit(Entry(Intro, "Failed", intro.intro_content,
                            <<intro.intro_filename>>),
                      withText, locs)

MergeResults == {"ok", "nonzero", "nostart"}

\* audio_merger.rs:7-40.  res: ffmpeg ran and exited zero, ran and exited
\* non-zero, or could not be started
audio_merger(d, intro_path, content_path, output_path, res) ==
    LET list == temp_list(output_path)
        withList == write(d, list, list_content(intro_path, content_path))
    IN  IF ~exists(d, intro_path) \/ ~exists(d, content_path)
        THEN [ok |-> FALSE, disk |-> d, wrote |-> <<>>]                  \* :9-10
        ELSE IF res = "nostart"
        THEN [ok |-> FALSE, disk |-> withList, wrote |-> <<list>>]       \* :29
        ELSE IF res = "nonzero"
        THEN [ok |-> FALSE, disk |-> remove_file(withList, list),
              wrote |-> <<list>>]                                        \* :32-36
        ELSE [ok |-> TRUE,
              disk |-> write(remove_file(withList, list), output_path,
                             concat(d[intro_path], d[content_path])),
              wrote |-> <<list, output_path>>]

\* main.rs:435-466, one file
MergeStep(res) ==
    /\ AtStage(Merge)
    /\ LET file == cfg.files_to_process[idx]
           intro_audio == merge_intro_audio(file, cfg.input_path)
           content_audio == merge_content_audio(file, cfg.input_path)
           merged == merged_audio(file, cfg.output_path)
           locs == {Loc(file, "IntroAudio", intro_audio),
                    Loc(file, "ContentAudio", content_audio),
                    Loc(file, "MergedAudio", merged)}
           r == audio_merger(disk, intro_audio, content_audio, merged, res)
       IN  IF exists(disk, merged)
           THEN Visit(Entry(Merge, "Skipped", <<>>, <<>>), disk, locs)
           ELSE IF ~exists(disk, intro_audio) \/ ~exists(disk, content_audio)
           THEN Visit(Entry(Merge, "Pending", <<>>, <<>>), disk, locs)
           ELSE Visit(Entry(Merge, IF r.ok THEN "Done" ELSE "Failed",
                            <<intro_audio, content_audio>>, r.wrote),
                      r.disk, locs)

\* main.rs:284-288: every stage function of the plan has returned Ok
Complete ==
    /\ pc = "run"
    /\ phase > Len(cfg.plan)
    /\ pc' = "idle"
    /\ exit' = ExitCode(FALSE)
    /\ prev' = IF cfg.plan = process_all
               THEN [full_ok |-> TRUE, files_to_process |-> cfg.files_to_process,
                     output_path |-> cfg.output_path]
               ELSE NoPrev
    /\ UNCHANGED <<files, audio_path, mdText, disk, runsLeft, deletesLeft, startup, cfg,
                   phase, idx, log, located, startDisk, deleted, since>>

\* between two invocations the operator deletes one file
DeleteFile(p) ==
    /\ pc = "idle"
    /\ runsLeft > 0
    /\ deletesLeft > 0
    /\ exists(disk, p)
    /\ disk' = remove_file(disk, p)
    /\ deleted' = deleted \cup {p}
    /\ deletesLeft' = deletesLeft - 1
    /\ UNCHANGED <<files, audio_path, mdText, runsLeft, pc, exit, startup, cfg, phase,
                   idx, log, located, startDisk, prev, since>>

\* config.rs:79: between two invocations AUDIO_OUTPUT_PATH is set to another directory
Reconfigure(p) ==
    /\ pc = "idle"
    /\ runsLeft > 0
    /\ p # audio_path
    /\ audio_path' = p
    /\ UNCHANGED <<files, mdText, disk, runsLeft, deletesLeft, pc, exit, startup, cfg,
                   phase, idx, log, located, startDisk, prev, deleted, since>>

(***************************************************************************)
(* Specifications.                                                         *)
(***************************************************************************)
\* the lists of at most n distinct files of pool
FileLists(pool, n) ==
    {s \in UNION {[1..k -> pool] : k \in 0..n} :
        \A i, j \in 1..Len(s) : i # j => s[i] # s[j]}

InitWith(lists, texts, runs) ==
    /\ files \in lists
    /\ audio_path \in AudioPaths
    /\ mdText \in [{files[i] : i \in 1..Len(files)} -> texts]
    /\ disk = EmptyDisk
    /\ runsLeft = runs
    /\ deletesLeft = MaxDeletes
    /\ pc = "idle"
    /\ exit = -1
    /\ startup = "ok"
    /\ cfg = NoCfg
    /\ phase = 1
    /\ idx = 1
    /\ log = <<>>
    /\ located = {}
    /\ startDisk = EmptyDisk
    /\ prev = NoPrev
    /\ deleted = {}
    /\ since = NoSince

\* the menus are answered only when start-up gets as far as asking them
Run ==
    \E selection \in 0..5, env \in Envs :
        \E file_selection \in IF selection = 5 /\ Startup(selection, env) = "ok"
                              THEN 0..(Len(files) - 1) ELSE {0},
           operation \in IF selection = 5 /\ Startup(selection, env) = "ok"
                         THEN 0..4 ELSE {4} :
            StartRun(selection, file_selection, operation, env)

Next ==
    \/ Run
    \/ \E ok \in BOOLEAN : TranscriptStep(ok)
    \/ \E ok \in BOOLEAN : NarrationStep(ok)
    \/ \E ok \in BOOLEAN : IntroStep(ok)
    \/ \E res \in MergeResults : MergeStep(res)
    \/ Complete

\* several invocations on at most MaxDocs documents of 500 characters
Init == InitWith(FileLists(FilePool, MaxDocs), {PlainText}, MaxRuns)

Spec == Init /\ [][Next]_vars

\* several invocations, the operator deleting files between them
NextDelete ==
    \/ Next
    \/ \E p \in DOMAIN disk : DeleteFile(p)

SpecDelete == Init /\ [][NextDelete]_vars

\* several invocations, the output directory changing between them
NextReconfig ==
    \/ Next
    \/ \E p \in AudioPaths : Reconfigure(p)

SpecReconfig == Init /\ [][NextReconfig]_vars

\* one invocation on one document of any text
InitTrunc == InitWith({<<Md("docs", <<"a">>)>>}, Texts, 1)

SpecTrunc == InitTrunc /\ [][Next]_vars

\* markdown.rs:12-21: the walk descends into subdirectories, so two of the files
\* found can have the same name
TreePool == {Md("docs", <<"a">>), Md("docs/sub", <<"a">>), Md("docs", <<"b">>)}

\* several invocations on documents of a tree with a subdirectory
InitTree == InitWith(FileLists(TreePool, MaxDocs), {PlainText}, MaxRuns)

SpecTree == InitTree /\ [][Next]_vars

\* markdown.rs:17-20: any file with extension md is a document, so the stem of
\* one can be the stem of another behind the prefix the intro files are given
PrefixPool == {Md("docs", <<"a">>), Md("docs", <<"intro_", "a">>)}

\* several invocations on documents whose stems differ by that prefix
InitPrefix == InitWith(FileLists(PrefixPool, MaxDocs), {PlainText}, MaxRuns)

SpecPrefix == InitPrefix /\ [][Next]_vars

(***************************************************************************)
(* Vocabulary of the properties.                                           *)
(***************************************************************************)
\* the artifact table of the specification: kind -> path
Kinds == {"Transcript", "ContentAudio", "IntroText", "IntroAudio", "MergedAudio"}

Artifact(file, kind, out) ==
    CASE kind = "Transcript" ->
            [dir |-> file.dir, name |-> file_stem(file) \o <<".conversation.txt">>]
      [] kind = "ContentAudio" ->
            [dir |-> out, name |-> file_stem(file) \o <<".mp3">>]
      [] kind = "IntroText" ->
            [dir |-> file.dir, name |-> <<"intro_">> \o file_stem(file) \o <<".txt">>]
      [] kind = "IntroAudio" ->
            [dir |-> out, name |-> <<"intro_">> \o file_stem(file) \o <<".mp3">>]
      [] kind = "MergedAudio" ->
            [dir |-> out, name |-> <<"chapter_">> \o file_stem(file) \o <<".mp3">>]

Producer(kind) ==
    CASE kind = "Transcript" -> Transcript
      [] kind = "ContentAudio" -> Narration
      [] kind = "IntroText" -> Intro
      [] kind = "IntroAudio" -> Intro
      [] kind = "MergedAudio" -> Merge

Docs == 1..Len(cfg.files_to_process)

ArtifactPaths == {Artifact(cfg.files_to_process[i], k, cfg.output_path) :
                    i \in Docs, k \in Kinds}

\* the executor of the entry's stage was called
IsInvoked(e) == e.outcome \in {"Done", "Failed"}

Invoked == SelectSeq(log, IsInvoked)

\* the (stage, document) pairs of a sequence of entries
Pairs(es) == [k \in 1..Len(es) |-> <<es[k].stage, es[k].doc>>]

RECURSIVE Flatten(_)
Flatten(ss) == IF ss = <<>> THEN <<>> ELSE Head(ss) \o Flatten(Tail(ss))

\* the artifact files written by this invocation, in order
Written ==
    SelectSeq(Flatten([k \in 1..Len(log) |-> log[k].wrote]),
              LAMBDA p : p \in ArtifactPaths)

\* the state of a (document, stage) pair of this invocation
Status(i, stage) ==
    IF \E k \in 1..Len(log) : log[k].stage = stage /\ log[k].doc = i
    THEN log[CHOOSE k \in 1..Len(log) : log[k].stage = stage /\ log[k].doc = i].outcome
    ELSE "Pending"

StagesOf == {cfg.plan[k] : k \in 1..Len(cfg.plan)}

\* the invocation got past start-up and has just ended
RunOver == pc = "idle" /\ exit # -1 /\ startup = "ok" /\ deleted = {}

RunCompleted == RunOver /\ exit = 0

FullMode == cfg.plan = process_all

(***************************************************************************)
(* C1.  Idempotence of the full process: when a full process has completed *)
(* and is run again on the same documents, with the same output directory  *)
(* and an unchanged disk, the second run calls no executor, leaves the     *)
(* disk as it was, and ends with every (document, stage) pair Skipped.     *)
(* Stated as the claim states it; the code violates it.                    *)
(***************************************************************************)
C1_Idempotence ==
    (RunCompleted /\ since.rerun /\ since.deleted = {}) =>
        /\ Invoked = <<>>
        /\ disk = startDisk
        /\ \A i \in Docs, s \in StagesOf : Status(i, s) = "Skipped"

\* C1 with the output directory being the document directory, where the Merge
\* stage looks for its inputs where they were written
C1_IdempotenceSameDir ==
    (RunCompleted /\ since.rerun /\ since.deleted = {} /\ cfg.output_path = cfg.input_path) =>
        /\ Invoked = <<>>
        /\ disk = startDisk
        /\ \A i \in Docs, s \in StagesOf : Status(i, s) = "Skipped"

DocA == Md("docs", <<"a">>)

DocB == Md("docs", <<"b">>)

(***************************************************************************)
(* C2.  End to end: from a.md and b.md and no derived file, a completed    *)
(* full process has written the ten artifacts in the order transcripts,    *)
(* content audio, intros, merged audio; twelve files exist with the two    *)
(* documents; no pair is Skipped.  Stated as the claim states it; the code *)
(* violates it.                                                            *)
(***************************************************************************)
C2_EndToEnd ==
    (RunCompleted /\ FullMode /\ cfg.files_to_process = <<DocA, DocB>>
        /\ startDisk = EmptyDisk) =>
        /\ Written = << Artifact(DocA, "Transcript", cfg.output_path),
                        Artifact(DocB, "Transcript", cfg.output_path),
                        Artifact(DocA, "ContentAudio", cfg.output_path),
                        Artifact(DocB, "ContentAudio", cfg.output_path),
                        Artifact(DocA, "IntroText", cfg.output_path),
                        Artifact(DocA, "IntroAudio", cfg.output_path),
                        Artifact(DocB, "IntroText", cfg.output_path),
                        Artifact(DocB, "IntroAudio", cfg.output_path),
                        Artifact(DocA, "MergedAudio", cfg.output_path),
                        Artifact(DocB, "MergedAudio", cfg.output_path) >>
        /\ Cardinality(DOMAIN disk) + Len(cfg.files_to_process) = 12
        /\ \A k \in 1..Len(log) : log[k].outcome # "Skipped"

\* C2 with the output directory being the document directory
C2_EndToEndSameDir ==
    cfg.output_path = cfg.input_path => C2_EndToEnd

\* the step is a visit of the Merge stage
MergeVisit == Len(log') = Len(log) + 1 /\ log'[Len(log')].stage = Merge

\* the Merge inputs of the current file, at the paths of the artifact table
MergeInputsExist ==
    LET file == cfg.files_to_process[idx]
    IN  /\ exists(disk, Artifact(file, "IntroAudio", cfg.output_path))
        /\ exists(disk, Artifact(file, "ContentAudio", cfg.output_path))

(***************************************************************************)
(* C3.  Merge dependency: a step never calls the Merge executor for a      *)
(* document whose IntroAudio (<output-dir>/intro_<id>.mp3) or ContentAudio *)
(* (<output-dir>/<id>.mp3) does not exist when the step is taken; such a   *)
(* document is passed over (left Pending when it has no merged audio) and  *)
(* the run goes on.  Stated as the claim states it; the code violates it.  *)
(***************************************************************************)
C3_MergeNeedsInputs ==
    [][(MergeVisit /\ ~MergeInputsExist) =>
          /\ ~IsInvoked(log'[Len(log')])
          /\ pc' = "run"
          /\ (~exists(disk, Artifact(cfg.files_to_process[idx], "MergedAudio",
                                     cfg.output_path))
                => log'[Len(log')].outcome = "Pending")]_vars

\* the Merge inputs of the current file, at the paths the Merge stage computes
MergeInputsFound ==
    LET file == cfg.files_to_process[idx]
    IN  /\ exists(disk, merge_intro_audio(file, cfg.input_path))
        /\ exists(disk, merge_content_audio(file, cfg.input_path))

\* C3 for the inputs at the paths the Merge stage computes
C3_MergeNeedsFoundInputs ==
    [][(MergeVisit /\ ~MergeInputsFound) =>
          /\ ~IsInvoked(log'[Len(log')])
          /\ pc' = "run"]_vars

(***************************************************************************)
(* C4.  Fail-fast: an executor that fails is the last thing its run does:  *)
(* no (document, stage) visit follows it, and the run has ended with a     *)
(* non-zero exit status.                                                   *)
(***************************************************************************)
C4_FailFast ==
    \A k \in 1..Len(log) :
        log[k].outcome = "Failed" =>
            /\ k = Len(log)
            /\ pc = "idle"
            /\ exit = 1

\* narration fails for document 2 of 3 in a full process: document 3 has its
\* transcript and nothing else, and no Intro or Merge visit was made
C4_Witness ==
    /\ FullMode
    /\ Len(cfg.files_to_process) = 3
    /\ Pairs(log) = << <<Transcript, 1>>, <<Transcript, 2>>, <<Transcript, 3>>,
                       <<Narration, 1>>, <<Narration, 2>> >>
    /\ log[5].outcome = "Failed"
    /\ log[4].outcome = "Done"
    /\ exit = 1

(***************************************************************************)
(* C5.  Write-once: no run writes an artifact path that held a file when   *)
(* the run began.  Stated as the claim states it; the code violates it.    *)
(***************************************************************************)
C5_WriteOnce ==
    \A k \in 1..Len(log) : \A n \in 1..Len(log[k].wrote) :
        log[k].wrote[n] \in ArtifactPaths => ~exists(startDisk, log[k].wrote[n])

\* C5 for every artifact kind but the intro text
C5_WriteOnceButIntroText ==
    \A k \in 1..Len(log) : \A n \in 1..Len(log[k].wrote) :
        (/\ log[k].wrote[n] \in ArtifactPaths
         /\ \A i \in Docs : log[k].wrote[n] #
                Artifact(cfg.files_to_process[i], "IntroText", cfg.output_path))
            => ~exists(startDisk, log[k].wrote[n])

(***************************************************************************)
(* C6.  Selective re-execution: when a full process has completed, one     *)
(* artifact of one document is deleted and the full process is run again   *)
(* on the same documents and output directory, the second run calls the    *)
(* executor of the stage that produces the deleted artifact, for that      *)
(* document, and no other.  Stated as the claim states it; the code        *)
(* violates it.                                                            *)
(***************************************************************************)
C6_SelectiveRerun ==
    \A i \in Docs, kind \in Kinds :
        (/\ RunOver
         /\ since.rerun
         /\ since.deleted = {Artifact(cfg.files_to_process[i], kind, cfg.output_path)})
            => Pairs(Invoked) = << <<Producer(kind), i>> >>

\* C6 for every artifact kind but the intro text
C6_SelectiveRerunButIntroText ==
    \A i \in Docs, kind \in Kinds \ {"IntroText"} :
        (/\ RunOver
         /\ since.rerun
         /\ since.deleted = {Artifact(cfg.files_to_process[i], kind, cfg.output_path)})
            => Pairs(Invoked) = << <<Producer(kind), i>> >>

\* p is an initial segment of t
RECURSIVE IsPrefix(_, _)
IsPrefix(p, t) ==
    \/ p = <<>>
    \/ /\ t # <<>>
       /\ p[1][1] = t[1][1]
       /\ IF Len(p) = 1 THEN p[1][2] <= t[1][2]
          ELSE p[1][2] = t[1][2] /\ IsPrefix(Tail(p), Tail(t))

(***************************************************************************)
(* C7.  Truncation: the text handed to the transcript provider is the      *)
(* first 4000 characters of the document when the document has more than   *)
(* 4000 characters, and the document's text when it has 4000 or fewer.     *)
(***************************************************************************)
C7_Truncation ==
    \A k \in 1..Len(log) :
        (log[k].stage = Transcript /\ IsInvoked(log[k])) =>
            LET text == mdText[cfg.files_to_process[log[k].doc]]
            IN  IF chars_count(text) > 4000
                THEN chars_count(log[k].input) = 4000 /\ IsPrefix(log[k].input, text)
                ELSE log[k].input = text

\* a document of 5000 characters, some of them of several bytes, was cut to 4000
C7_Witness ==
    \E k \in 1..Len(log) :
        /\ log[k].stage = Transcript
        /\ log[k].outcome = "Done"
        /\ chars_count(mdText[cfg.files_to_process[log[k].doc]]) = 5000
        /\ len(mdText[cfg.files_to_process[log[k].doc]]) > 5000
        /\ chars_count(log[k].input) = 4000

\* a document of 3000 characters and 9000 bytes went through unchanged
C7_WitnessWide ==
    \E k \in 1..Len(log) :
        /\ log[k].stage = Transcript
        /\ log[k].outcome = "Done"
        /\ chars_count(mdText[cfg.files_to_process[log[k].doc]]) = 3000
        /\ len(mdText[cfg.files_to_process[log[k].doc]]) = 9000
        /\ log[k].input = mdText[cfg.files_to_process[log[k].doc]]

\* an invocation has ended, at start-up or after its stages
Ended == pc = "idle" /\ exit # -1

SomeFailed == \E k \in 1..Len(log) : log[k].outcome = "Failed"

\* C8 as the claim states it: an invocation exits non-zero exactly when some
\* (document, stage) pair failed.  The code violates it.
C8_ExitIffFailed == Ended => (exit # 0 <=> SomeFailed)

\* C8, amended: an invocation exits non-zero exactly when some (document, stage)
\* pair failed or start-up failed before any stage began (no configuration, a
\* model variable or the API key unset, or single-file mode with no markdown
\* file); so a run whose pairs all end Done, Skipped or Pending exits zero.
C8_ExitAmended ==
    Ended =>
        /\ exit # 0 <=> (SomeFailed \/ startup # "ok")
        /\ (startup # "ok") => log = <<>>

\* a run that ended on a failed pair, after a pair that was Done
C8_Witness ==
    /\ Ended
    /\ exit = 1
    /\ startup = "ok"
    /\ SomeFailed
    /\ \E k \in 1..Len(log) : log[k].outcome = "Done"

\* a run with Done and Skipped pairs only, exiting zero
C8_WitnessZero ==
    /\ RunCompleted
    /\ \E k \in 1..Len(log) : log[k].outcome = "Done"
    /\ \E k \in 1..Len(log) : log[k].outcome = "Skipped"
    /\ \A k \in 1..Len(log) : log[k].outcome \in {"Done", "Skipped"}

StagePos(stage) == CHOOSE n \in 1..4 : StageOrder[n] = stage

(***************************************************************************)
(* C9.  Stage ordering of the full process: the visits follow the order    *)
(* Transcript, Narration, Intro, Merge, and when an executor is called,    *)
(* every earlier stage has visited (run, skipped or passed over) every     *)
(* document of the run.                                                    *)
(***************************************************************************)
C9_StageOrder ==
    FullMode =>
        /\ \A j, k \in 1..Len(log) :
              j < k => StagePos(log[j].stage) <= StagePos(log[k].stage)
        /\ \A k \in 1..Len(log) :
              IsInvoked(log[k]) =>
                  \A n \in 1..(StagePos(log[k].stage) - 1), i \in Docs :
                      \E j \in 1..(k - 1) :
                          log[j].stage = StageOrder[n] /\ log[j].doc = i

\* a full process on two documents that skipped a transcript and still called
\* the Merge executor for the second document
C9_Witness ==
    /\ FullMode
    /\ Len(cfg.files_to_process) = 2
    /\ \E k \in 1..Len(log) : log[k].stage = Transcript /\ log[k].outcome = "Skipped"
    /\ \E k \in 1..Len(log) :
          log[k].stage = Merge /\ log[k].doc = 2 /\ log[k].outcome = "Done"

(***************************************************************************)
(* C10.  Path determinism: within a run, every computation of the path of  *)
(* an artifact kind of a document gives the same path.  Stated as the      *)
(* claim states it; the code violates it.                                  *)
(***************************************************************************)
C10_OnePathPerArtifact ==
    \A x, y \in located : (x.file = y.file /\ x.kind = y.kind) => x.path = y.path

\* C10 for the kinds the Merge stage does not read
C10_OnePathButMergeInputs ==
    \A x, y \in located :
        (x.file = y.file /\ x.kind = y.kind /\ x.kind \notin {"IntroAudio", "ContentAudio"})
            => x.path = y.path

\* the artifact kinds a stage produces
OutputsOf(stage) == {k \in Kinds : Producer(k) = stage}

\* every output artifact of the stage for the file is on disk d
OutputsExist(d, file, stage) ==
    \A k \in OutputsOf(stage) : exists(d, Artifact(file, k, cfg.output_path))

\* this step is one visit of a (document, stage) pair
IsVisit == pc = "run" /\ Len(log') = Len(log) + 1

Visited == log'[Len(log')]

(***************************************************************************)
(* C11.  Skip rule: a visit of a (document, stage) pair ends Skipped       *)
(* exactly when every output artifact of the stage for that document was   *)
(* on disk when the visit began; for Intro these are IntroText and         *)
(* IntroAudio.  Stated as the claim states it; the code violates it.       *)
(***************************************************************************)
C11_SkipRule ==
    [][IsVisit =>
          (Visited.outcome = "Skipped"
              <=> OutputsExist(disk, cfg.files_to_process[Visited.doc], Visited.stage))]_vars

\* C11 for the two stages whose only check is the one for their single output
C11_SkipRuleTranscriptMerge ==
    [][(IsVisit /\ Visited.stage \in {Transcript, Merge}) =>
          (Visited.outcome = "Skipped"
              <=> OutputsExist(disk, cfg.files_to_process[Visited.doc], Visited.stage))]_vars

\* the file of the visit this step makes
VisitedFile == cfg.files_to_process[idx]

(***************************************************************************)
(* C12.  Narration dependency: a Narration visit of a document whose       *)
(* Transcript is not on disk calls no executor and leaves the pair         *)
(* Pending; the disk is unchanged, the run does not end or fail, and the   *)
(* stage goes on to the next document (to the next stage after the last).  *)
(***************************************************************************)
C12_NarrationDependency ==
    [][(/\ IsVisit
        /\ Visited.stage = Narration
        /\ ~exists(disk, Artifact(VisitedFile, "Transcript", cfg.output_path)))
          => /\ Visited.outcome = "Pending"
             /\ Visited.doc = idx
             /\ disk' = disk
             /\ pc' = "run"
             /\ exit' = -1
             /\ IF idx < Len(cfg.files_to_process)
                THEN phase' = phase /\ idx' = idx + 1
                ELSE phase' = phase + 1 /\ idx' = 1]_vars

\* a completed run in which Narration passed over a first document that has no
\* transcript and then called the executor for a later one
C12_Witness ==
    /\ RunCompleted
    /\ \E j, k \in 1..Len(log) :
          /\ j < k
          /\ log[j].stage = Narration /\ log[j].outcome = "Pending"
          /\ ~exists(disk, Artifact(cfg.files_to_process[log[j].doc], "Transcript",
                                    cfg.output_path))
          /\ log[k].stage = Narration /\ log[k].outcome = "Done"

\* the output artifact paths of the (document, stage) pair of a log entry
OutputPaths(e) ==
    {Artifact(cfg.files_to_process[e.doc], k, cfg.output_path) : k \in OutputsOf(e.stage)}

\* the artifact files this invocation created or changed
NewOnDisk ==
    {p \in DOMAIN disk \cap ArtifactPaths : ~exists(startDisk, p) \/ disk[p] # startDisk[p]}

\* the artifact files written by the pairs that reached Done
WrittenByDone ==
    UNION {{log[k].wrote[n] : n \in 1..Len(log[k].wrote)} :
              k \in {j \in 1..Len(log) : log[j].outcome = "Done"}}

(***************************************************************************)
(* C13.  No partial results: when a run has ended on a failure, every      *)
(* artifact it created or changed was written by a pair that reached Done, *)
(* and no output artifact of the Failed pair was created or changed.       *)
(* Stated as the claim states it; the code violates it.                    *)
(***************************************************************************)
C13_NoPartialResults ==
    (RunOver /\ exit # 0) =>
        /\ NewOnDisk \subseteq WrittenByDone
        /\ \A k \in 1..Len(log) :
              log[k].outcome = "Failed" => OutputPaths(log[k]) \cap NewOnDisk = {}

\* C13 for the runs whose failed pair is not an Intro pair
C13_NoPartialButIntro ==
    (RunOver /\ exit # 0 /\ \A k \in 1..Len(log) :
                               log[k].outcome = "Failed" => log[k].stage # Intro) =>
        /\ NewOnDisk \subseteq WrittenByDone
        /\ \A k \in 1..Len(log) :
              log[k].outcome = "Failed" => OutputPaths(log[k]) \cap NewOnDisk = {}

\* the paths computed for an artifact kind of a file by the stage that writes it
\* and by the Merge stage, which reads it
WriterPath(file, kind) ==
    IF kind = "IntroAudio" THEN intro_audio_filename(file, cfg.output_path)
    ELSE audio_filename(file, cfg.output_path)

ReaderPath(file, kind) ==
    IF kind = "IntroAudio" THEN merge_intro_audio(file, cfg.input_path)
    ELSE merge_content_audio(file, cfg.input_path)

MergeInputKinds == {"IntroAudio", "ContentAudio"}

(***************************************************************************)
(* C14.  Producer/consumer path agreement: in every run, for every         *)
(* document, Merge looks for IntroAudio and ContentAudio where Intro and   *)
(* Narration write them, which is the path of the artifact table, whether  *)
(* or not the output directory is the document directory.  Stated as the   *)
(* claim states it; the code violates it.                                  *)
(***************************************************************************)
C14_PathAgreement ==
    pc = "run" =>
        \A i \in Docs, k \in MergeInputKinds :
            LET file == cfg.files_to_process[i]
            IN  /\ ReaderPath(file, k) = WriterPath(file, k)
                /\ WriterPath(file, k) = Artifact(file, k, cfg.output_path)

\* C14 when the output directory is the document directory
C14_PathAgreementSameDir ==
    (pc = "run" /\ cfg.output_path = cfg.input_path) =>
        \A i \in Docs, k \in MergeInputKinds :
            LET file == cfg.files_to_process[i]
            IN  /\ ReaderPath(file, k) = WriterPath(file, k)
                /\ WriterPath(file, k) = Artifact(file, k, cfg.output_path)

\* the writers agree with the artifact table in every configuration
C14_WritersAgree ==
    pc = "run" =>
        \A i \in Docs, k \in MergeInputKinds :
            LET file == cfg.files_to_process[i]
            IN  WriterPath(file, k) = Artifact(file, k, cfg.output_path)

\* the five artifact paths of a file, as the stage functions compute them when
\* they write
CodePaths(file) ==
    {conv_filename(file),
     audio_filename(file, cfg.output_path),
     generate_intro(file).intro_filename,
     intro_audio_filename(file, cfg.output_path),
     merged_audio(file, cfg.output_path)}

(***************************************************************************)
(* C15.  Per-document artifact independence: in every run, the five        *)
(* artifact paths of two distinct documents are disjoint, also when the    *)
(* documents are in different subdirectories.  Stated as the claim states  *)
(* it; the code violates it.                                               *)
(***************************************************************************)
C15_DisjointArtifacts ==
    pc = "run" =>
        \A i, j \in Docs :
            i # j => CodePaths(cfg.files_to_process[i])
                        \cap CodePaths(cfg.files_to_process[j]) = {}

\* the consequence the claim draws: on a disk that was empty when the run began
\* no pair finds its output already there
C15_NoCrossSkip ==
    (pc = "run" /\ startDisk = EmptyDisk) =>
        \A k \in 1..Len(log) : log[k].outcome # "Skipped"

\* single-file mode: 'Process specific file' of the first menu
SingleFileMode == pc = "run" /\ cfg.selection = 5

\* the document at the menu position the operator chose (main.rs:121-125 lists
\* file_names in the order of markdown_files)
ChosenDoc == files[cfg.file_selection + 1]

(***************************************************************************)
(* C16.  Single-document selection: in single-file mode the documents      *)
(* processed are exactly the one document at the menu position the         *)
(* operator chose, also when two discovered documents have the same file   *)
(* name.  Stated as the claim states it; the code violates it.             *)
(***************************************************************************)
C16_SelectedDocument ==
    SingleFileMode => cfg.files_to_process = <<ChosenDoc>>

\* C16 short of which document it is: exactly one document, and one with the
\* chosen file name
C16_OneDocumentOfThatName ==
    SingleFileMode =>
        /\ Len(cfg.files_to_process) = 1
        /\ cfg.files_to_process[1].name = ChosenDoc.name
        /\ \E i \in 1..Len(files) : files[i] = cfg.files_to_process[1]

\* a run of one stage function: one of the four single-stage entries of either menu
SingleStage == startup = "ok" /\ Len(cfg.plan) = 1

\* the artifact paths, over all discovered documents, of the kinds the stage
\* does not produce
OtherStagesPaths(stage) ==
    {Artifact(files[i], k, cfg.output_path) :
        i \in 1..Len(files), k \in {kk \in Kinds : Producer(kk) # stage}}

\* path p is on disk d2 exactly as on disk d1
SameAt(d1, d2, p) ==
    /\ exists(d1, p) <=> exists(d2, p)
    /\ exists(d1, p) => d1[p] = d2[p]

(***************************************************************************)
(* C17.  Single-stage frame: in a single-stage run of stage S every visit  *)
(* is a visit of S, and no artifact that another stage produces, of any    *)
(* discovered document, is created, modified or deleted.  Stated as the    *)
(* claim states it; the code violates it.                                  *)
(***************************************************************************)
C17_SingleStageFrame ==
    SingleStage =>
        /\ \A k \in 1..Len(log) : log[k].stage = cfg.plan[1]
        /\ \A p \in OtherStagesPaths(cfg.plan[1]) : SameAt(startDisk, disk, p)

\* C17, the executors only: every visit of a single-stage run is of its stage
C17_OnlyThatStage ==
    SingleStage => \A k \in 1..Len(log) : log[k].stage = cfg.plan[1]

(***************************************************************************)
(* C18.  Model-provider prompt: a run asks the operator for the model      *)
(* provider exactly when the Transcript stage is one of the stages it      *)
(* runs; single-file mode with an operation other than the transcript or   *)
(* all operations does not ask.  Stated as the claim states it; the code   *)
(* violates it.                                                            *)
(***************************************************************************)
C18_ModelPrompt ==
    pc = "run" => (cfg.model_asked <=> Transcript \in StagesOf)

\* C18 for the runs over all discovered documents
C18_ModelPromptAllFiles ==
    (pc = "run" /\ cfg.selection # 5) => (cfg.model_asked <=> Transcript \in StagesOf)

\* in single-file mode the operator is asked whatever the operation
C18_SingleFileAlwaysAsks ==
    (pc = "run" /\ cfg.selection = 5) => cfg.model_asked

(***************************************************************************)
(* C19.  Intro independence: an Intro visit never ends Pending, and when   *)
(* the document's IntroAudio is not on disk (so whenever both intro        *)
(* outputs are missing) the Intro executor is called, whether or not the   *)
(* document's Transcript and ContentAudio are on disk.                     *)
(***************************************************************************)
C19_IntroIndependence ==
    [][(IsVisit /\ Visited.stage = Intro) =>
          /\ Visited.outcome # "Pending"
          /\ ~exists(disk, Artifact(VisitedFile, "IntroAudio", cfg.output_path))
                => IsInvoked(Visited)]_vars

\* an Intro pair that reached Done for a document with neither Transcript nor
\* ContentAudio on disk
C19_Witness ==
    \E k \in 1..Len(log) :
        LET file == cfg.files_to_process[log[k].doc]
        IN  /\ log[k].stage = Intro
            /\ log[k].outcome = "Done"
            /\ ~exists(disk, Artifact(file, "Transcript", cfg.output_path))
            /\ ~exists(disk, Artifact(file, "ContentAudio", cfg.output_path))
            /\ exists(disk, Artifact(file, "IntroAudio", cfg.output_path))

\* an Intro pair that reached Done for a document with both on disk
C19_WitnessWithBoth ==
    \E k \in 1..Len(log) :
        LET file == cfg.files_to_process[log[k].doc]
        IN  /\ log[k].stage = Intro
            /\ log[k].outcome = "Done"
            /\ exists(disk, Artifact(file, "Transcript", cfg.output_path))
            /\ exists(disk, Artifact(file, "ContentAudio", cfg.output_path))

\* "Chapter {id}. About {id}."
TemplateAboutId(id) == <<"text", <<"Chapter ">> \o id \o <<". About ">> \o id \o <<".">> >>

\* "Chapter {id}. About NIP-{id}."
TemplateAboutNip(id) ==
    <<"text", <<"Chapter ">> \o id \o <<". About NIP-">> \o id \o <<".">> >>

\* the log entries of the visits that called the Intro executor
IntroCalls == {k \in 1..Len(log) : log[k].stage = Intro /\ IsInvoked(log[k])}

\* the IntroText file of the document of log entry k
IntroTextOf(k) == Artifact(cfg.files_to_process[log[k].doc], "IntroText", cfg.output_path)

(***************************************************************************)
(* C20.  Intro template: whenever the Intro executor has been called for a *)
(* document with identifier id, the text sent to the speech provider and   *)
(* the text in the IntroText file are both "Chapter {id}. About {id}.".    *)
(* Stated as the claim states it; the code violates it.                    *)
(***************************************************************************)
C20_IntroTemplate ==
    \A k \in IntroCalls :
        LET id == file_stem(cfg.files_to_process[log[k].doc])
        IN  /\ log[k].input = TemplateAboutId(id)
            /\ exists(disk, IntroTextOf(k))
            /\ disk[IntroTextOf(k)] = TemplateAboutId(id)

\* C20, amended: whenever the Intro executor has been called for a document with
\* identifier id, the text sent to the speech provider and the text in the
\* IntroText file are both "Chapter {id}. About NIP-{id}.", the same text.
C20_IntroTemplateNip ==
    \A k \in IntroCalls :
        LET id == file_stem(cfg.files_to_process[log[k].doc])
        IN  /\ log[k].input = TemplateAboutNip(id)
            /\ exists(disk, IntroTextOf(k))
            /\ disk[IntroTextOf(k)] = TemplateAboutNip(id)
            /\ disk[IntroTextOf(k)] = log[k].input

\* the intro of docs/b.md was narrated, and its text file holds
\* "Chapter b. About NIP-b."
C20_Witness ==
    \E k \in IntroCalls :
        /\ cfg.files_to_process[log[k].doc] = DocB
        /\ log[k].outcome = "Done"
        /\ exists(disk, [dir |-> "docs", name |-> <<"intro_", "b", ".txt">>])
        /\ disk[[dir |-> "docs", name |-> <<"intro_", "b", ".txt">>]]
              = <<"text", <<"Chapter ", "b", ". About NIP-", "b", ".">> >>

\* the list file the Merge executor creates for the file: <output-dir>/chapter_<id>.txt
TempListOf(file) == temp_list(merged_audio(file, cfg.output_path))

\* the artifact paths of all discovered documents
AllArtifactPaths ==
    {Artifact(files[i], k, cfg.output_path) : i \in 1..Len(files), k \in Kinds}

(***************************************************************************)
(* C21.  Merge temp-file cleanup: when a Merge visit has called the        *)
(* executor and it has returned, with success, with a non-zero exit of the *)
(* concatenator, or because the concatenator could not be started, the     *)
(* list file it created is not on disk, and the disk holds artifact files  *)
(* only.  Stated as the claim states it; the code violates it.             *)
(***************************************************************************)
C21_TempListRemoved ==
    [][(IsVisit /\ Visited.stage = Merge /\ IsInvoked(Visited)) =>
          /\ ~exists(disk', TempListOf(VisitedFile))
          /\ DOMAIN disk' \subseteq AllArtifactPaths]_vars

\* C21 for the executor calls that returned Ok: the list file of the call is gone
C21_TempListRemovedWhenDone ==
    [][(IsVisit /\ Visited.stage = Merge /\ Visited.outcome = "Done") =>
          ~exists(disk', TempListOf(VisitedFile))]_vars

====
